---- MODULE Spec2Model ----
(***************************************************************************)
(* Model of the Datadog MCP server: the credential resolver (src/auth.py), *)
(* the transport client (src/client.py) and the tool handlers              *)
(* (src/tools/*.py).  A handler runs synchronously up to the await of the  *)
(* HTTP call (action Invoke) and resumes when the remote answers (action   *)
(* Respond) or the transport fails (action TransportFailure).              *)
(***************************************************************************)
EXTENDS Integers, Sequences, FiniteSets, TLC

(***************************************************************************)
(* Python / JSON values, tagged so that values of different types compare. *)
(***************************************************************************)
None == [t |-> "null"]
Str(s) == [t |-> "str", v |-> s]
Num(n) == [t |-> "int", v |-> n]
Bool(b) == [t |-> "bool", v |-> b]
Dict(f) == [t |-> "obj", v |-> f]
List(q) == [t |-> "list", v |-> q]
EmptyDict == Dict(<<>>)

\* The marker of an expression that raised: AttributeError (x.get on a value
\* that is not a dict) or TypeError (iterating or len() of a non-iterable).
CrashAttr == [t |-> "raise", v |-> "AttributeError"]
CrashType == [t |-> "raise", v |-> "TypeError"]
IsCrash(x) == x.t = "raise"

IsDict(x) == x.t = "obj"

\* Python truthiness: bool(x).
Truthy(x) ==
    CASE x.t = "null" -> FALSE
      [] x.t = "str" -> x.v # ""
      [] x.t = "int" -> x.v # 0
      [] x.t = "bool" -> x.v
      [] x.t = "obj" -> DOMAIN x.v # {}
      [] x.t = "list" -> Len(x.v) > 0
      [] OTHER -> TRUE

\* Python `a or b`.
Or(a, b) == IF Truthy(a) THEN a ELSE b

\* d.get(k, default): AttributeError when d is not a dict.
GetD(d, k, default) ==
    IF IsCrash(d) THEN d
    ELSE IF ~IsDict(d) THEN CrashAttr
    ELSE IF k \in DOMAIN d.v THEN d.v[k] ELSE default

\* d.get(k)
Get(d, k) == GetD(d, k, None)

\* str(b).lower() of a bool
StrLower(b) == IF b THEN Str("true") ELSE Str("false")

(***************************************************************************)
(* Outcomes of a call: a returned value or a raised exception.             *)
(***************************************************************************)
Return(v) == [kind |-> "return", value |-> v]
Raise(type, msg) == [kind |-> "raise", type |-> type, message |-> msg]

\* `except ValueError` also catches the subclasses of ValueError
\* (json.JSONDecodeError is one).
IsValueError(type) == type \in {"ValueError", "JSONDecodeError"}

(***************************************************************************)
(* src/auth.py                                                             *)
(***************************************************************************)
DATADOG_API_URL == "https://api.us5.datadoghq.com"

DatadogCredentials(api_key, application_key) ==
    [api_key |-> api_key, application_key |-> application_key]

\* repr() of the list returned by get_errors(), as the f-string formats it.
RECURSIVE JoinWith(_, _)
JoinWith(sep, q) ==
    IF Len(q) = 0 THEN ""
    ELSE IF Len(q) = 1 THEN q[1]
    ELSE q[1] \o sep \o JoinWith(sep, Tail(q))

Quoted(q) == [n \in 1..Len(q) |-> "'" \o q[n] \o "'"]
PyReprList(q) == "[" \o JoinWith(", ", Quoted(q)) \o "]"

\* getattr(token_response, "raw", None) or {}
TokenRaw(token_response) ==
    Or(IF token_response.has_raw THEN token_response.raw ELSE None, EmptyDict)

\* Mutant of ApplicationKeyOf: the two keys are looked up in the other order.
ApplicationKeyOf_swapped(raw) ==
    Or(Get(raw, "application_key"), Get(raw, "dd_application_key"))

\* raw.get("dd_application_key") or raw.get("application_key")
ApplicationKeyOf(raw) == Or(Get(raw, "dd_application_key"), Get(raw, "application_key"))

NoContextMessage ==
    "No authentication context - Keycard auth may not be configured"
MissingAppKeyMessage ==
    "DD-APPLICATION-KEY not found in token response. "
    \o "Ensure the Keycard Datadog integration is configured to provide both keys."

\* The credentials step that follows a successful access_ctx.access().
CredentialsFromToken(token_response) ==
    LET api_key == token_response.access_token
        raw == TokenRaw(token_response)
        application_key == ApplicationKeyOf(raw)
    IN  IF ~Truthy(application_key)
        THEN Raise("ValueError", MissingAppKeyMessage)
        ELSE Return(DatadogCredentials(api_key, application_key))

\* Mutant of get_datadog_credentials: access() is called before the
\* has_errors() check.
get_datadog_credentials_access_first(access_ctx) ==
    IF access_ctx = None
    THEN [outcome |-> Raise("ValueError", NoContextMessage),
          has_errors_calls |-> 0, get_errors_calls |-> 0, access_calls |-> <<>>]
    ELSE IF access_ctx.access.kind = "raise"
    THEN [outcome |-> access_ctx.access,
          has_errors_calls |-> 0, get_errors_calls |-> 0,
          access_calls |-> <<DATADOG_API_URL>>]
    ELSE IF access_ctx.has_errors
    THEN [outcome |-> Raise("ValueError",
                            "Authentication errors: " \o PyReprList(access_ctx.errors)),
          has_errors_calls |-> 1, get_errors_calls |-> 1,
          access_calls |-> <<DATADOG_API_URL>>]
    ELSE [outcome |-> CredentialsFromToken(access_ctx.access.value),
          has_errors_calls |-> 1, get_errors_calls |-> 0,
          access_calls |-> <<DATADOG_API_URL>>]

\* get_datadog_credentials(access_ctx): the outcome, with the calls it made
\* on the access context (has_errors, get_errors, access and its arguments).
get_datadog_credentials(access_ctx) ==
    IF access_ctx = None
    THEN [outcome |-> Raise("ValueError", NoContextMessage),
          has_errors_calls |-> 0, get_errors_calls |-> 0, access_calls |-> <<>>]
    ELSE IF access_ctx.has_errors
    THEN [outcome |-> Raise("ValueError",
                            "Authentication errors: " \o PyReprList(access_ctx.errors)),
          has_errors_calls |-> 1, get_errors_calls |-> 1, access_calls |-> <<>>]
    ELSE [outcome |-> IF access_ctx.access.kind = "raise"
                      THEN access_ctx.access
                      ELSE CredentialsFromToken(access_ctx.access.value),
          has_errors_calls |-> 1, get_errors_calls |-> 0,
          access_calls |-> <<DATADOG_API_URL>>]

\* get_datadog_credentials() as incidents.py, slos.py and traces.py call it:
\* the required positional parameter is missing, so the call raises
\* TypeError before the function body runs.
get_datadog_credentials_noargs ==
    [outcome |-> Raise("TypeError",
        "get_datadog_credentials() missing 1 required positional argument: 'access_ctx'"),
     has_errors_calls |-> 0, get_errors_calls |-> 0, access_calls |-> <<>>]

(***************************************************************************)
(* src/client.py                                                           *)
(***************************************************************************)
Timeout == 30

DatadogClientError(message, status_code) ==
    [kind |-> "raise", type |-> "DatadogClientError", message |-> message,
     status_code |-> status_code]

\* Mutant of FilterNone: every falsy value is dropped (`if v`).
FilterNone_falsy(d) ==
    IF Truthy(d)
    THEN Dict([k \in {j \in DOMAIN d.v : Truthy(d.v[j])} |-> d.v[k]])
    ELSE d

\* {k: v for k, v in d.items() if v is not None}, applied `if d:` only.
FilterNone(d) ==
    IF Truthy(d)
    THEN Dict([k \in {j \in DOMAIN d.v : d.v[j] # None} |-> d.v[k]])
    ELSE d

\* Mutant of request_send: a call with a JSON body is sent with PUT.
request_send_put(method, path, api_key, application_key, params, json) ==
    LET headers == [DD_API_KEY |-> api_key,
                    DD_APPLICATION_KEY |-> application_key,
                    Content_Type |-> Str("application/json")]
        url == DATADOG_API_URL \o path
    IN  Return([method |-> IF json # None THEN "PUT" ELSE method,
                url |-> url, headers |-> headers,
                params |-> FilterNone(params), json |-> FilterNone(json),
                timeout |-> Timeout])

\* request() up to the await: the outbound call handed to httpx.
request_send(method, path, api_key, application_key, params, json) ==
    LET headers == [DD_API_KEY |-> api_key,
                    DD_APPLICATION_KEY |-> application_key,
                    Content_Type |-> Str("application/json")]
        url == DATADOG_API_URL \o path
    IN  Return([method |-> method, url |-> url, headers |-> headers,
                params |-> FilterNone(params), json |-> FilterNone(json),
                timeout |-> Timeout])

\* Mutant of ErrorDetail: the errors list of the body is ignored.
ErrorDetail_text_only(response) == response.text

\* "; ".join(errors) if errors else response.text, inside the try block:
\* any exception (no .get on the parsed body, a non-string entry, a value
\* that is not iterable) falls back to response.text.
ErrorDetail(response) ==
    IF response.json.kind = "raise" THEN response.text
    ELSE LET error_data == response.json.value
             errors == GetD(error_data, "errors", List(<<>>))
         IN  IF IsCrash(errors) THEN response.text
             ELSE IF ~Truthy(errors) THEN response.text
             ELSE IF errors.t = "list"
             THEN IF \A n \in 1..Len(errors.v) : errors.v[n].t = "str"
                  THEN JoinWith("; ", [n \in 1..Len(errors.v) |-> errors.v[n].v])
                  ELSE response.text
             \* a string or a dict joins its characters or its keys (modelled
             \* for one character and for one key)
             ELSE IF errors.t = "str" /\ Len(errors.v) = 1 THEN errors.v
             ELSE IF errors.t = "obj" /\ Cardinality(DOMAIN errors.v) = 1
             THEN CHOOSE k \in DOMAIN errors.v : TRUE
             ELSE response.text

\* Mutant of request_receive: no special case for 204 or an empty body.
request_receive_no_empty_case(response) ==
    IF response.status_code >= 400
    THEN DatadogClientError(
             "Datadog API error (" \o ToString(response.status_code) \o "): "
                 \o ErrorDetail(response),
             response.status_code)
    ELSE response.json

\* request() after the await: the outcome for a received response.
request_receive(response) ==
    IF response.status_code >= 400
    THEN DatadogClientError(
             "Datadog API error (" \o ToString(response.status_code) \o "): "
                 \o ErrorDetail(response),
             response.status_code)
    ELSE IF response.status_code = 204 \/ response.text = ""
    THEN Return(EmptyDict)
    ELSE response.json

(***************************************************************************)
(* Shaping helpers shared by the handlers of src/tools/*.py                *)
(***************************************************************************)
EmptyList == List(<<>>)

\* A dict literal: evaluating any entry that raises makes the literal raise.
Shaped(rec) ==
    IF \E k \in DOMAIN rec : IsCrash(rec[k])
    THEN rec[CHOOSE k \in DOMAIN rec : IsCrash(rec[k])]
    ELSE Dict(rec)

\* Mutant of Project: the whole object is copied, not the listed keys.
Project_all(m, keys) == IF IsCrash(m) THEN m ELSE IF ~IsDict(m) THEN CrashAttr ELSE m

\* {k: m.get(k) for the listed keys}
Project(m, keys) == Shaped([k \in keys |-> Get(m, k)])

\* `for m in x`: a list gives its items, a dict its keys and a string its
\* characters (strings either way, one stands for them here); anything else
\* is not iterable.
Iterate(x) ==
    IF IsCrash(x) THEN x
    ELSE IF x.t = "list" THEN x
    ELSE IF x.t = "obj"
    THEN IF Truthy(x) THEN List(<<Str(CHOOSE k \in DOMAIN x.v : TRUE)>>) ELSE EmptyList
    ELSE IF x.t = "str"
    THEN IF Truthy(x) THEN List(<<x>>) ELSE EmptyList
    ELSE CrashType

\* The items a comprehension runs over (none when the iteration raised).
Elems(it) == IF IsCrash(it) THEN <<>> ELSE it.v

\* Mutant of Collect: the last item of the collection is left out.
Collect_drop_last(it, q) ==
    IF IsCrash(it) THEN it
    ELSE IF \E n \in 1..Len(q) : IsCrash(q[n])
    THEN q[CHOOSE n \in 1..Len(q) : IsCrash(q[n])]
    ELSE List(SubSeq(q, 1, Len(q) - 1))

\* Mutant of Collect: the items come out in the opposite order.
Collect_reversed(it, q) ==
    IF IsCrash(it) THEN it
    ELSE IF \E n \in 1..Len(q) : IsCrash(q[n])
    THEN q[CHOOSE n \in 1..Len(q) : IsCrash(q[n])]
    ELSE List([n \in 1..Len(q) |-> q[Len(q) + 1 - n]])

\* [P(m) for m in x], given it = Iterate(x) and q = the P(m) in order: the
\* list, unless the iteration or the projection of an item raised.
Collect(it, q) ==
    IF IsCrash(it) THEN it
    ELSE IF \E n \in 1..Len(q) : IsCrash(q[n])
    THEN q[CHOOSE n \in 1..Len(q) : IsCrash(q[n])]
    ELSE List(q)

\* len(x)
PyLen(x) ==
    IF IsCrash(x) THEN x
    ELSE IF x.t = "list" THEN Num(Len(x.v))
    ELSE IF x.t = "obj" THEN Num(Cardinality(DOMAIN x.v))
    ELSE IF x.t = "str" THEN Num(Len(x.v))
    ELSE CrashType

\* m.get("attributes", {}).get(k)
Attr(m, k) == Get(GetD(m, "attributes", EmptyDict), k)

\* Mutant of NextCursor: the cursor is read from meta.after.
NextCursor_meta_after(data) == Get(GetD(data, "meta", EmptyDict), "after")

\* data.get("meta", {}).get("page", {}).get("after")
NextCursor(data) ==
    Get(GetD(GetD(data, "meta", EmptyDict), "page", EmptyDict), "after")

(***************************************************************************)
(* src/tools/monitors.py                                                   *)
(***************************************************************************)
list_monitors_request(a, creds) ==
    request_send("GET", "/api/v1/monitor", creds.api_key, creds.application_key,
        Dict([name |-> a.name, tags |-> a.tags, monitor_tags |-> a.monitor_tags,
              page |-> a.page, page_size |-> a.page_size]),
        None)

MonitorSummary(m) ==
    Project(m, {"id", "name", "type", "query", "overall_state", "message",
                "tags", "created", "modified"})

list_monitors_shape(a, data) ==
    LET it == Iterate(data)
        monitors == Collect(it, [n \in 1..Len(Elems(it)) |->
                                MonitorSummary(Elems(it)[n])])
    IN  Shaped([success |-> Bool(TRUE), monitors |-> monitors,
                count |-> PyLen(monitors)])

get_monitor_request(a, creds) ==
    request_send("GET", "/api/v1/monitor/" \o ToString(a.monitor_id.v),
        creds.api_key, creds.application_key,
        Dict([group_states |-> a.group_states]),
        None)

get_monitor_shape(a, data) ==
    LET monitor == Project(data, {"id", "name", "type", "query", "overall_state",
                                  "message", "tags", "options", "state",
                                  "created", "modified", "creator"})
    IN  Shaped([success |-> Bool(TRUE), monitor |-> monitor])

(***************************************************************************)
(* src/tools/hosts.py                                                      *)
(***************************************************************************)
list_hosts_request(a, creds) ==
    request_send("GET", "/api/v1/hosts", creds.api_key, creds.application_key,
        Dict([filter |-> a.filter, sort_field |-> a.sort_field,
              sort_dir |-> a.sort_dir, start |-> a.start, count |-> a.count,
              include_muted_hosts_data |-> StrLower(a.include_muted_hosts_data.v)]),
        None)

HostSummary(h) ==
    Project(h, {"name", "id", "aliases", "apps", "sources", "up", "is_muted",
                "last_reported_time", "meta"})

list_hosts_shape(a, data) ==
    LET it == Iterate(GetD(data, "host_list", EmptyList))
        hosts == Collect(it, [n \in 1..Len(Elems(it)) |->
                             HostSummary(Elems(it)[n])])
    IN  Shaped([success |-> Bool(TRUE), hosts |-> hosts, count |-> PyLen(hosts),
                total_matching |-> Get(data, "total_matching"),
                total_returned |-> Get(data, "total_returned")])

get_host_totals_request(a, creds) ==
    request_send("GET", "/api/v1/hosts/totals", creds.api_key, creds.application_key,
        Dict([from |-> a.from_ts]),
        None)

get_host_totals_shape(a, data) ==
    Shaped([success |-> Bool(TRUE),
            total_active |-> Get(data, "total_active"),
            total_up |-> Get(data, "total_up")])

(***************************************************************************)
(* src/tools/metrics.py                                                    *)
(***************************************************************************)
query_metrics_request(a, creds) ==
    request_send("GET", "/api/v1/query", creds.api_key, creds.application_key,
        Dict([query |-> a.query, from |-> a.from_ts, to |-> a.to_ts]),
        None)

SeriesSummary(s) ==
    Project(s, {"metric", "display_name", "scope", "expression", "unit",
                "pointlist", "length", "start", "end", "interval", "tag_set"})

query_metrics_shape(a, data) ==
    LET it == Iterate(GetD(data, "series", EmptyList))
        series == Collect(it, [n \in 1..Len(Elems(it)) |->
                              SeriesSummary(Elems(it)[n])])
    IN  Shaped([success |-> Bool(TRUE), series |-> series, count |-> PyLen(series),
                from_date |-> Get(data, "from_date"),
                to_date |-> Get(data, "to_date"),
                query |-> Get(data, "query")])

list_active_metrics_request(a, creds) ==
    request_send("GET", "/api/v1/metrics", creds.api_key, creds.application_key,
        Dict([from |-> a.from_ts, host |-> a.host, tag_filter |-> a.tag_filter]),
        None)

list_active_metrics_shape(a, data) ==
    LET metrics == GetD(data, "metrics", EmptyList)
    IN  Shaped([success |-> Bool(TRUE), metrics |-> metrics,
                count |-> PyLen(metrics)])

(***************************************************************************)
(* src/tools/logs.py                                                       *)
(***************************************************************************)
search_logs_request(a, creds) ==
    LET body == Dict([filter |-> Dict([query |-> a.query, from |-> a.from_ts,
                                       to |-> a.to_ts]),
                      page |-> Dict([limit |-> a.limit, cursor |-> a.cursor]),
                      sort |-> a.sort])
    IN  request_send("POST", "/api/v2/logs/events/search",
                     creds.api_key, creds.application_key, None, body)

LogSummary(log) ==
    Shaped([id |-> Get(log, "id"),
            timestamp |-> Attr(log, "timestamp"),
            status |-> Attr(log, "status"),
            service |-> Attr(log, "service"),
            message |-> Attr(log, "message"),
            host |-> Attr(log, "host"),
            tags |-> Attr(log, "tags")])

search_logs_shape(a, data) ==
    LET it == Iterate(GetD(data, "data", EmptyList))
        logs == Collect(it, [n \in 1..Len(Elems(it)) |->
                            LogSummary(Elems(it)[n])])
    IN  Shaped([success |-> Bool(TRUE), logs |-> logs, count |-> PyLen(logs),
                next_cursor |-> NextCursor(data)])

(***************************************************************************)
(* src/tools/events.py                                                     *)
(***************************************************************************)
list_events_request(a, creds) ==
    request_send("GET", "/api/v2/events", creds.api_key, creds.application_key,
        Dict(("filter[query]" :> a.filter_query) @@ ("filter[from]" :> a.filter_from)
             @@ ("filter[to]" :> a.filter_to) @@ ("sort" :> a.sort)
             @@ ("page[limit]" :> a.page_limit) @@ ("page[cursor]" :> a.page_cursor)),
        None)

EventSummary(evt) ==
    Shaped([id |-> Get(evt, "id"),
            type |-> Get(evt, "type"),
            timestamp |-> Attr(evt, "timestamp"),
            title |-> Get(GetD(GetD(evt, "attributes", EmptyDict), "evt", EmptyDict),
                          "name"),
            message |-> Attr(evt, "message"),
            tags |-> Attr(evt, "tags"),
            status |-> Attr(evt, "status")])

list_events_shape(a, data) ==
    LET it == Iterate(GetD(data, "data", EmptyList))
        events == Collect(it, [n \in 1..Len(Elems(it)) |->
                              EventSummary(Elems(it)[n])])
    IN  Shaped([success |-> Bool(TRUE), events |-> events, count |-> PyLen(events),
                next_cursor |-> NextCursor(data)])

(***************************************************************************)
(* src/tools/dashboards.py                                                 *)
(***************************************************************************)
\* str(flag).lower() if flag is not None else None
OptStrLower(flag) == IF flag # None THEN StrLower(flag.v) ELSE None

list_dashboards_request(a, creds) ==
    request_send("GET", "/api/v1/dashboard", creds.api_key, creds.application_key,
        Dict(("filter[shared]" :> OptStrLower(a.filter_shared))
             @@ ("filter[deleted]" :> OptStrLower(a.filter_deleted))
             @@ ("count" :> a.count) @@ ("start" :> a.start)),
        None)

DashboardSummary(d) ==
    Project(d, {"id", "title", "description", "layout_type", "url", "created_at",
                "modified_at", "author_handle"})

list_dashboards_shape(a, data) ==
    LET it == Iterate(GetD(data, "dashboards", EmptyList))
        dashboards == Collect(it, [n \in 1..Len(Elems(it)) |->
                                  DashboardSummary(Elems(it)[n])])
    IN  Shaped([success |-> Bool(TRUE), dashboards |-> dashboards,
                count |-> PyLen(dashboards)])

get_dashboard_request(a, creds) ==
    request_send("GET", "/api/v1/dashboard/" \o a.dashboard_id.v,
                 creds.api_key, creds.application_key, None, None)

WidgetSummary(w) ==
    Shaped([id |-> Get(w, "id"),
            type |-> Get(GetD(w, "definition", EmptyDict), "type"),
            title |-> Get(GetD(w, "definition", EmptyDict), "title")])

get_dashboard_shape(a, data) ==
    LET it == Iterate(GetD(data, "widgets", EmptyList))
        widgets == Collect(it, [n \in 1..Len(Elems(it)) |->
                               WidgetSummary(Elems(it)[n])])
        dashboard ==
            Shaped([id |-> Get(data, "id"),
                    title |-> Get(data, "title"),
                    description |-> Get(data, "description"),
                    layout_type |-> Get(data, "layout_type"),
                    url |-> Get(data, "url"),
                    widgets |-> widgets,
                    widget_count |-> PyLen(widgets),
                    template_variables |-> Get(data, "template_variables"),
                    created_at |-> Get(data, "created_at"),
                    modified_at |-> Get(data, "modified_at"),
                    author_handle |-> Get(data, "author_handle")])
    IN  Shaped([success |-> Bool(TRUE), dashboard |-> dashboard])

(***************************************************************************)
(* src/tools/incidents.py                                                  *)
(***************************************************************************)
list_incidents_request(a, creds) ==
    request_send("GET", "/api/v2/incidents", creds.api_key, creds.application_key,
        Dict(("include" :> a.include) @@ ("page[size]" :> a.page_size)
             @@ ("page[offset]" :> a.page_offset)),
        None)

IncidentSummary(inc) ==
    Shaped([id |-> Get(inc, "id"),
            type |-> Get(inc, "type"),
            title |-> Attr(inc, "title"),
            status |-> Attr(inc, "status"),
            severity |-> Attr(inc, "severity"),
            created |-> Attr(inc, "created"),
            modified |-> Attr(inc, "modified"),
            resolved |-> Attr(inc, "resolved"),
            customer_impact_scope |-> Attr(inc, "customer_impact_scope")])

list_incidents_shape(a, data) ==
    LET it == Iterate(GetD(data, "data", EmptyList))
        incidents == Collect(it, [n \in 1..Len(Elems(it)) |->
                                 IncidentSummary(Elems(it)[n])])
    IN  Shaped([success |-> Bool(TRUE), incidents |-> incidents,
                count |-> PyLen(incidents)])

get_incident_request(a, creds) ==
    request_send("GET", "/api/v2/incidents/" \o a.incident_id.v,
        creds.api_key, creds.application_key,
        Dict([include |-> a.include]),
        None)

get_incident_shape(a, data) ==
    LET inc == GetD(data, "data", EmptyDict)
        attrs == GetD(inc, "attributes", EmptyDict)
        incident ==
            Shaped([id |-> Get(inc, "id"),
                    type |-> Get(inc, "type"),
                    title |-> Get(attrs, "title"),
                    status |-> Get(attrs, "status"),
                    severity |-> Get(attrs, "severity"),
                    created |-> Get(attrs, "created"),
                    modified |-> Get(attrs, "modified"),
                    resolved |-> Get(attrs, "resolved"),
                    detected |-> Get(attrs, "detected"),
                    customer_impact_scope |-> Get(attrs, "customer_impact_scope"),
                    customer_impact_start |-> Get(attrs, "customer_impact_start"),
                    customer_impact_end |-> Get(attrs, "customer_impact_end"),
                    fields |-> Get(attrs, "fields"),
                    notification_handles |-> Get(attrs, "notification_handles")])
    IN  Shaped([success |-> Bool(TRUE), incident |-> incident])

(***************************************************************************)
(* src/tools/slos.py                                                       *)
(***************************************************************************)
list_slos_request(a, creds) ==
    request_send("GET", "/api/v1/slo", creds.api_key, creds.application_key,
        Dict([ids |-> a.ids, query |-> a.query, tags_query |-> a.tags_query,
              metrics_query |-> a.metrics_query, limit |-> a.limit,
              offset |-> a.offset]),
        None)

SloSummary(s) ==
    Project(s, {"id", "name", "description", "type", "tags", "thresholds",
                "created_at", "modified_at"})

list_slos_shape(a, data) ==
    LET it == Iterate(GetD(data, "data", EmptyList))
        slos == Collect(it, [n \in 1..Len(Elems(it)) |->
                            SloSummary(Elems(it)[n])])
    IN  Shaped([success |-> Bool(TRUE), slos |-> slos, count |-> PyLen(slos)])

get_slo_request(a, creds) ==
    request_send("GET", "/api/v1/slo/" \o a.slo_id.v,
        creds.api_key, creds.application_key,
        Dict([with_configured_alert_ids |-> StrLower(a.with_configured_alert_ids.v)]),
        None)

get_slo_shape(a, data) ==
    LET slo_data == GetD(data, "data", EmptyDict)
        slo == Project(slo_data, {"id", "name", "description", "type", "tags",
                                  "thresholds", "query", "groups", "monitor_ids",
                                  "created_at", "modified_at", "creator"})
    IN  Shaped([success |-> Bool(TRUE), slo |-> slo])

get_slo_history_request(a, creds) ==
    request_send("GET", "/api/v1/slo/" \o a.slo_id.v \o "/history",
        creds.api_key, creds.application_key,
        Dict([from_ts |-> a.from_ts, to_ts |-> a.to_ts, target |-> a.target]),
        None)

get_slo_history_shape(a, data) ==
    LET history == GetD(data, "data", EmptyDict)
    IN  Shaped([success |-> Bool(TRUE), slo_id |-> a.slo_id,
                overall |-> Get(history, "overall"),
                thresholds |-> Get(history, "thresholds"),
                series |-> Get(history, "series")])

(***************************************************************************)
(* src/tools/traces.py                                                     *)
(***************************************************************************)
search_spans_request(a, creds) ==
    LET body ==
            Dict([data |-> Dict([type |-> Str("search_request"),
                                 attributes |-> Dict(
                                     [filter |-> Dict([query |-> a.query,
                                                       from |-> a.from_ts,
                                                       to |-> a.to_ts]),
                                      page |-> Dict([limit |-> a.limit,
                                                     cursor |-> a.cursor]),
                                      sort |-> a.sort])])])
    IN  request_send("POST", "/api/v2/spans/events/search",
                     creds.api_key, creds.application_key, None, body)

SpanSummary(span) ==
    Shaped([id |-> Get(span, "id"),
            type |-> Get(span, "type"),
            timestamp |-> Attr(span, "timestamp"),
            service |-> Attr(span, "service"),
            resource_name |-> Attr(span, "resource_name"),
            span_id |-> Attr(span, "span_id"),
            trace_id |-> Attr(span, "trace_id"),
            duration |-> Attr(span, "duration"),
            status |-> Attr(span, "status"),
            host |-> Attr(span, "host"),
            env |-> Attr(span, "env"),
            operation_name |-> Attr(span, "operation_name")])

search_spans_shape(a, data) ==
    LET it == Iterate(GetD(data, "data", EmptyList))
        spans == Collect(it, [n \in 1..Len(Elems(it)) |->
                             SpanSummary(Elems(it)[n])])
    IN  Shaped([success |-> Bool(TRUE), spans |-> spans, count |-> PyLen(spans),
                next_cursor |-> NextCursor(data)])

(***************************************************************************)
(* The handlers: try: credentials, request, shape; except                  *)
(* DatadogClientError; except ValueError.                                  *)
(***************************************************************************)
ContextOperations ==
    {"list_monitors", "get_monitor", "list_hosts", "get_host_totals",
     "query_metrics", "list_active_metrics", "search_logs", "list_events",
     "list_dashboards", "get_dashboard"}
NoContextOperations ==
    {"list_incidents", "get_incident", "list_slos", "get_slo", "get_slo_history",
     "search_spans"}
Operations == ContextOperations \cup NoContextOperations

FailureEnvelope(message) ==
    Dict([success |-> Bool(FALSE), error |-> Str(message), isError |-> Bool(TRUE)])

\* Mutant of HandlerExcept: the errors raised by the access to a missing
\* attribute or by a wrong type are caught as well.
HandlerExcept_catch_lookup(exc) ==
    IF exc.type \in {"DatadogClientError", "AttributeError", "TypeError"}
    THEN Return(FailureEnvelope(exc.message))
    ELSE IF IsValueError(exc.type) THEN Return(FailureEnvelope(exc.message))
    ELSE exc

\* Mutant of HandlerExcept: a catch-all turns every exception into the
\* failure envelope.
HandlerExcept_catch_all(exc) == Return(FailureEnvelope(exc.message))

\* The except clauses of a handler: what the caller of the handler gets when
\* the try block raised.
HandlerExcept(exc) ==
    IF exc.type = "DatadogClientError" THEN Return(FailureEnvelope(exc.message))
    ELSE IF IsValueError(exc.type) THEN Return(FailureEnvelope(exc.message))
    ELSE exc

\* creds = get_datadog_credentials(access_ctx) / get_datadog_credentials()
HandlerCredentials(o, access_ctx) ==
    IF o \in NoContextOperations
    THEN get_datadog_credentials_noargs
    ELSE get_datadog_credentials(access_ctx)

\* data = await request(...), up to the await
HandlerRequest(o, a, creds) ==
    CASE o = "list_monitors" -> list_monitors_request(a, creds)
      [] o = "get_monitor" -> get_monitor_request(a, creds)
      [] o = "list_hosts" -> list_hosts_request(a, creds)
      [] o = "get_host_totals" -> get_host_totals_request(a, creds)
      [] o = "query_metrics" -> query_metrics_request(a, creds)
      [] o = "list_active_metrics" -> list_active_metrics_request(a, creds)
      [] o = "search_logs" -> search_logs_request(a, creds)
      [] o = "list_events" -> list_events_request(a, creds)
      [] o = "list_dashboards" -> list_dashboards_request(a, creds)
      [] o = "get_dashboard" -> get_dashboard_request(a, creds)
      [] o = "list_incidents" -> list_incidents_request(a, creds)
      [] o = "get_incident" -> get_incident_request(a, creds)
      [] o = "list_slos" -> list_slos_request(a, creds)
      [] o = "get_slo" -> get_slo_request(a, creds)
      [] o = "get_slo_history" -> get_slo_history_request(a, creds)
      [] o = "search_spans" -> search_spans_request(a, creds)

\* the statements between the await and the return of the success envelope
HandlerShape(o, a, data) ==
    CASE o = "list_monitors" -> list_monitors_shape(a, data)
      [] o = "get_monitor" -> get_monitor_shape(a, data)
      [] o = "list_hosts" -> list_hosts_shape(a, data)
      [] o = "get_host_totals" -> get_host_totals_shape(a, data)
      [] o = "query_metrics" -> query_metrics_shape(a, data)
      [] o = "list_active_metrics" -> list_active_metrics_shape(a, data)
      [] o = "search_logs" -> search_logs_shape(a, data)
      [] o = "list_events" -> list_events_shape(a, data)
      [] o = "list_dashboards" -> list_dashboards_shape(a, data)
      [] o = "get_dashboard" -> get_dashboard_shape(a, data)
      [] o = "list_incidents" -> list_incidents_shape(a, data)
      [] o = "get_incident" -> get_incident_shape(a, data)
      [] o = "list_slos" -> list_slos_shape(a, data)
      [] o = "get_slo" -> get_slo_shape(a, data)
      [] o = "get_slo_history" -> get_slo_history_shape(a, data)
      [] o = "search_spans" -> search_spans_shape(a, data)

\* The handler once request() has an outcome: shape and return, or except.
HandlerResume(o, a, received) ==
    IF received.kind = "raise" THEN HandlerExcept(received)
    ELSE LET shaped == HandlerShape(o, a, received.value)
         IN  IF IsCrash(shaped)
             THEN HandlerExcept(Raise(shaped.v, "raised while shaping"))
             ELSE Return(shaped)

(***************************************************************************)
(* Inputs: the arguments of each tool, the access contexts the Keycard     *)
(* state can hold, and the responses of the remote API.                    *)
(***************************************************************************)
MaxItems == 2
MaxErrors == 2

SeqsUpTo(S, n) == UNION {[1..k -> S] : k \in 0..n}

Opt(v) == {None, v}

Args(o) ==
    CASE o = "list_monitors" ->
           [name : Opt(Str("cpu")), tags : Opt(Str("env:prod")),
            monitor_tags : Opt(Str("team:a")), page : {Num(0)},
            page_size : {Num(50)}]
      [] o = "get_monitor" ->
           [monitor_id : {Num(123)}, group_states : Opt(Str("alert"))]
      [] o = "list_hosts" ->
           [filter : Opt(Str("web")), sort_field : Opt(Str("cpu")),
            sort_dir : Opt(Str("asc")), start : {Num(0)}, count : {Num(100)},
            include_muted_hosts_data : {Bool(FALSE), Bool(TRUE)}]
      [] o = "get_host_totals" -> [from_ts : Opt(Num(1700))]
      [] o = "query_metrics" ->
           [query : {Str("avg:system.cpu.user{*}")}, from_ts : {Num(1700)},
            to_ts : {Num(1800)}]
      [] o = "list_active_metrics" ->
           [from_ts : {Num(1700)}, host : Opt(Str("web-1")),
            tag_filter : Opt(Str("env:prod"))]
      [] o = "search_logs" ->
           [query : {Str("*")}, from_ts : Opt(Str("now-1h")), to_ts : Opt(Str("now")),
            limit : {Num(25)}, sort : {Str("-timestamp")}, cursor : Opt(Str("c1"))]
      [] o = "list_events" ->
           [filter_query : Opt(Str("source:nginx")), filter_from : Opt(Str("now-24h")),
            filter_to : Opt(Str("now")), sort : {Str("-timestamp")},
            page_limit : {Num(10)}, page_cursor : Opt(Str("c1"))]
      [] o = "list_dashboards" ->
           [filter_shared : {None, Bool(FALSE), Bool(TRUE)},
            filter_deleted : {None, Bool(FALSE), Bool(TRUE)},
            count : {Num(100)}, start : {Num(0)}]
      [] o = "get_dashboard" -> [dashboard_id : {Str("abc-def-ghi")}]
      [] o = "list_incidents" ->
           [include : Opt(Str("users")), page_size : {Num(25)},
            page_offset : {Num(0)}]
      [] o = "get_incident" ->
           [incident_id : {Str("inc-1")}, include : Opt(Str("users"))]
      [] o = "list_slos" ->
           [ids : Opt(Str("slo-1")), query : Opt(Str("api")),
            tags_query : Opt(Str("env:prod")), metrics_query : Opt(Str("m")),
            limit : {Num(100)}, offset : {Num(0)}]
      [] o = "get_slo" ->
           [slo_id : {Str("slo-1")},
            with_configured_alert_ids : {Bool(FALSE), Bool(TRUE)}]
      [] o = "get_slo_history" ->
           [slo_id : {Str("slo-1")}, from_ts : {Num(1700)}, to_ts : {Num(1800)},
            target : Opt(Num(99))]
      [] o = "search_spans" ->
           [query : {Str("*")}, from_ts : Opt(Str("now-15m")), to_ts : Opt(Str("now")),
            limit : {Num(25)}, sort : {Str("-timestamp")}, cursor : Opt(Str("c1"))]

\* TokenResponse objects: access_token and, when the attribute exists, raw.
RawMappings ==
    {None, EmptyDict,
     Dict([dd_application_key |-> Str("dd-app-key")]),
     Dict([application_key |-> Str("app-key")]),
     Dict([dd_application_key |-> Str("dd-app-key"),
           application_key |-> Str("app-key")]),
     Dict([dd_application_key |-> Str(""), application_key |-> Str("app-key")]),
     Dict([dd_application_key |-> Str("")])}

TokenResponses ==
    [access_token : {Str("dd-api-key"), Str("")}, has_raw : {TRUE},
     raw : RawMappings]
    \cup [access_token : {Str("dd-api-key"), Str("")}, has_raw : {FALSE},
          raw : {None}]

\* The exceptions access() raises: the SDK's own error class, or a ValueError.
AccessErrors ==
    {Raise("ResourceAccessError", "resource access failed"),
     Raise("ValueError", "resource not granted")}

\* ctx.get_state("keycardai"): no context, or an AccessContext.
AccessContexts ==
    {None}
    \cup [t : {"ctx"}, has_errors : {TRUE},
          errors : {<<"invalid_token">>, <<"invalid_token", "expired">>},
          access : {Raise("ResourceAccessError", "resource access failed")}]
    \cup [t : {"ctx"}, has_errors : {FALSE}, errors : {<<>>},
          access : AccessErrors \cup {Return(tr) : tr \in TokenResponses}]

\* The process environment, as far as credentials go.
Environments ==
    {[DD_API_KEY |-> Str("env-api-key"), DD_APPLICATION_KEY |-> Str("env-app-key")],
     [DD_API_KEY |-> Str(""), DD_APPLICATION_KEY |-> None]}

\* The text the remote serialises a JSON value to (scalars, lists, and
\* objects key by key).
RECURSIVE JsonText(_)
RECURSIVE JsonMembers(_, _)
JsonMembers(f, keys) ==
    IF keys = {} THEN ""
    ELSE LET k == CHOOSE j \in keys : TRUE
             rest == keys \ {k}
         IN  "\"" \o k \o "\": " \o JsonText(f[k])
                 \o (IF rest = {} THEN "" ELSE ", " \o JsonMembers(f, rest))
JsonText(x) ==
    CASE x.t = "null" -> "null"
      [] x.t = "str" -> "\"" \o x.v \o "\""
      [] x.t = "int" -> ToString(x.v)
      [] x.t = "bool" -> IF x.v THEN "true" ELSE "false"
      [] x.t = "list" ->
           "[" \o JoinWith(", ", [n \in 1..Len(x.v) |-> JsonText(x.v[n])]) \o "]"
      [] x.t = "obj" -> "{" \o JsonMembers(x.v, DOMAIN x.v) \o "}"

JSONDecodeError == Raise("JSONDecodeError", "Expecting value: line 1 column 1 (char 0)")

\* An httpx response: status, response.text and what response.json() gives.
JsonResponse(status_code, x) ==
    [status_code |-> status_code, text |-> JsonText(x), json |-> Return(x)]
TextResponse(status_code, text) ==
    [status_code |-> status_code, text |-> text, json |-> JSONDecodeError]

ErrorStrings == {"Monitor not found", "Forbidden"}

\* The JSON bodies of error responses.
ErrorBodies ==
    {Dict([errors |-> List([n \in 1..Len(q) |-> Str(q[n])])]) :
        q \in SeqsUpTo(ErrorStrings, MaxErrors)}
    \cup {Dict([message |-> Str("not found")]),
          Dict([errors |-> List(<<Num(404)>>)]),
          Dict([errors |-> Str("x")]),
          List(<<Str("Forbidden")>>)}

\* The items of the collections the remote returns.
Items ==
    {Dict([id |-> Str("a")]),
     Dict([id |-> Str("b"), name |-> Str("cpu-high"), type |-> Str("metric alert"),
           overall_state |-> Str("OK"), secret |-> Str("internal"),
           attributes |-> Dict([timestamp |-> Str("t1"), status |-> Str("ok"),
                                title |-> Str("outage"),
                                evt |-> Dict([name |-> Str("deploy")])]),
           definition |-> Dict([type |-> Str("timeseries"), title |-> Str("CPU")])])}

ItemLists == {List(q) : q \in SeqsUpTo(Items, MaxItems)}

\* The key under which an operation's payload carries its collection or object.
PayloadKey(o) ==
    CASE o = "list_hosts" -> "host_list"
      [] o \in {"query_metrics"} -> "series"
      [] o = "list_active_metrics" -> "metrics"
      [] o = "list_dashboards" -> "dashboards"
      [] o = "get_dashboard" -> "widgets"
      [] OTHER -> "data"

\* A payload with every field the shapers read, around a collection.
FullPayload(o, items) ==
    Dict((PayloadKey(o) :> items)
         @@ [id |-> Num(123), name |-> Str("cpu-high"), type |-> Str("metric alert"),
             overall_state |-> Str("OK"), total_matching |-> Num(0),
             total_returned |-> Num(0), secret |-> Str("internal"),
             meta |-> Dict([page |-> Dict([after |-> Str("c2")])])])

\* The operations whose payload carries one object under "data".
ObjectOperations == {"get_incident", "get_slo", "get_slo_history"}

\* What an operation's payload carries under its key: a collection of
\* items, or one item.
Carried(o) == IF o \in ObjectOperations THEN Items ELSE ItemLists
NothingCarried(o) == IF o \in ObjectOperations THEN EmptyDict ELSE EmptyList
OneCarried(o, item) == IF o \in ObjectOperations THEN item ELSE List(<<item>>)

\* Payloads with keys missing on the cursor path, and with a null where a
\* nested object is expected.
SparsePayloads(o) ==
    {Dict((PayloadKey(o) :> NothingCarried(o)) @@ [meta |-> EmptyDict]),
     Dict((PayloadKey(o) :> NothingCarried(o))
          @@ [meta |-> Dict([page |-> EmptyDict])]),
     Dict((PayloadKey(o) :> OneCarried(o, Dict([id |-> Str("c"), attributes |-> None,
                                                definition |-> None])))),
     Dict((PayloadKey(o) :> None))}

\* The JSON payloads of successful responses to operation o
\* (GET /api/v1/monitor answers with a bare list).
Payloads(o) ==
    {EmptyDict}
    \cup (IF o = "list_monitors" THEN ItemLists \cup {List(<<None>>)}
          ELSE {FullPayload(o, c) : c \in Carried(o)} \cup SparsePayloads(o))

ErrorStatuses == {404, 500}
OkStatuses == {200, 204}
\* A status below 400 that is not a 2xx: httpx does not follow redirects
\* unless asked to, so request() receives the 3xx response itself.
RedirectStatuses == {302}

Responses(o) ==
    {JsonResponse(sc, x) : sc \in ErrorStatuses, x \in ErrorBodies}
    \cup {JsonResponse(sc, x) : sc \in OkStatuses, x \in Payloads(o)}
    \cup {TextResponse(sc, text) :
            sc \in ErrorStatuses \cup OkStatuses \cup RedirectStatuses,
            text \in {"", "Bad Gateway"}}

\* The exceptions httpx raises when no response is obtained.
TransportErrors ==
    {Raise("httpx.ReadTimeout", "timed out"),
     Raise("httpx.ConnectError", "connection failed")}

(***************************************************************************)
(* State: one record of variables per invocation slot.                     *)
(***************************************************************************)
VARIABLES
    environ,     \* the process environment
    pc,          \* per slot: "idle", "awaiting" (HTTP call in flight), "done"
    op,          \* per slot: the operation invoked
    args,        \* per slot: its arguments
    access_ctx,  \* per slot: what ctx.get_state("keycardai") returns
    calls,       \* per slot: the calls made on the access context
    creds,       \* per slot: the handler's local `creds`, once resolved
    outbound,    \* per slot: the sequence of HTTP calls handed to httpx
    response,    \* per slot: the response received, if any
    received,    \* per slot: what `await request(...)` returned or raised
    result,      \* per slot: what the handler returned or raised
    client       \* per slot: the httpx.AsyncClient of the `async with` block:
                 \* "none", "open" or "closed"

vars == <<environ, pc, op, args, access_ctx, calls, creds, outbound, response,
          received, result, client>>

Slots == {1, 2}
SeqSlots == {1}

NoCalls == [has_errors |-> 0, get_errors |-> 0, access |-> <<>>]

Init ==
    /\ environ \in Environments
    /\ pc = [i \in Slots |-> "idle"]
    /\ op = [i \in Slots |-> "none"]
    /\ args = [i \in Slots |-> None]
    /\ access_ctx = [i \in Slots |-> None]
    /\ calls = [i \in Slots |-> NoCalls]
    /\ creds = [i \in Slots |-> None]
    /\ outbound = [i \in Slots |-> <<>>]
    /\ response = [i \in Slots |-> None]
    /\ received = [i \in Slots |-> None]
    /\ result = [i \in Slots |-> None]
    /\ client = [i \in Slots |-> "none"]

\* Mutant of Invoke: resolved credentials are kept in a cache shared by the
\* invocations, and a handler uses the cached ones when there are any.
Invoke_cached_credentials(i, o, a, c) ==
    /\ pc[i] = "idle"
    /\ LET resolved == HandlerCredentials(o, c)
           other == CHOOSE j \in Slots : j # i
           used == IF creds[other] # None THEN creds[other] ELSE resolved.outcome.value
           sent == IF resolved.outcome.kind = "raise" THEN resolved.outcome
                   ELSE HandlerRequest(o, a, used)
       IN  /\ op' = [op EXCEPT ![i] = o]
           /\ args' = [args EXCEPT ![i] = a]
           /\ access_ctx' = [access_ctx EXCEPT ![i] = c]
           /\ calls' = [calls EXCEPT ![i] =
                          [has_errors |-> resolved.has_errors_calls,
                           get_errors |-> resolved.get_errors_calls,
                           access |-> resolved.access_calls]]
           /\ creds' = [creds EXCEPT ![i] =
                          IF resolved.outcome.kind = "raise" THEN None ELSE used]
           /\ UNCHANGED <<response, received>>
           /\ IF sent.kind = "raise"
              THEN /\ pc' = [pc EXCEPT ![i] = "done"]
                   /\ outbound' = [outbound EXCEPT ![i] = <<>>]
                   /\ result' = [result EXCEPT ![i] = HandlerExcept(sent)]
                   /\ UNCHANGED client
              ELSE /\ pc' = [pc EXCEPT ![i] = "awaiting"]
                   /\ outbound' = [outbound EXCEPT ![i] = <<sent.value>>]
                   /\ result' = [result EXCEPT ![i] = None]
                   /\ client' = [client EXCEPT ![i] = "open"]
    /\ UNCHANGED environ

\* A tool is invoked: the handler runs to its first await or to its end.
Invoke(i, o, a, c) ==
    /\ pc[i] = "idle"
    /\ LET resolved == HandlerCredentials(o, c)
           sent == IF resolved.outcome.kind = "raise" THEN resolved.outcome
                   ELSE HandlerRequest(o, a, resolved.outcome.value)
       IN  /\ op' = [op EXCEPT ![i] = o]
           /\ args' = [args EXCEPT ![i] = a]
           /\ access_ctx' = [access_ctx EXCEPT ![i] = c]
           /\ calls' = [calls EXCEPT ![i] =
                          [has_errors |-> resolved.has_errors_calls,
                           get_errors |-> resolved.get_errors_calls,
                           access |-> resolved.access_calls]]
           /\ creds' = [creds EXCEPT ![i] =
                          IF resolved.outcome.kind = "raise" THEN None
                          ELSE resolved.outcome.value]
           /\ UNCHANGED <<response, received>>
           /\ IF sent.kind = "raise"
              THEN /\ pc' = [pc EXCEPT ![i] = "done"]
                   /\ outbound' = [outbound EXCEPT ![i] = <<>>]
                   /\ result' = [result EXCEPT ![i] = HandlerExcept(sent)]
                   /\ UNCHANGED client
              ELSE /\ pc' = [pc EXCEPT ![i] = "awaiting"]
                   /\ outbound' = [outbound EXCEPT ![i] = <<sent.value>>]
                   /\ result' = [result EXCEPT ![i] = None]
                   /\ client' = [client EXCEPT ![i] = "open"]
    /\ UNCHANGED environ

\* Mutant of Respond: the response is kept in a buffer shared by the
\* invocations, and the handler shapes what the buffer held first.
Respond_shared_buffer(i, r) ==
    /\ pc[i] = "awaiting"
    /\ pc' = [pc EXCEPT ![i] = "done"]
    /\ response' = [response EXCEPT ![i] = r]
    /\ LET other == CHOOSE j \in Slots : j # i
           buffered == IF response[other] # None THEN response[other] ELSE r
       IN  /\ received' = [received EXCEPT ![i] = request_receive(buffered)]
           /\ result' = [result EXCEPT ![i] =
                             HandlerResume(op[i], args[i], request_receive(buffered))]
    /\ client' = [client EXCEPT ![i] = "closed"]
    /\ UNCHANGED <<environ, op, args, access_ctx, calls, creds, outbound>>

\* Mutant of Respond: an error status is retried once before it surfaces.
Respond_retry(i, r) ==
    /\ pc[i] = "awaiting"
    /\ IF r.status_code >= 400 /\ Len(outbound[i]) < 2
       THEN /\ outbound' = [outbound EXCEPT ![i] = Append(@, outbound[i][1])]
            /\ UNCHANGED <<pc, response, received, result, client>>
       ELSE /\ pc' = [pc EXCEPT ![i] = "done"]
            /\ response' = [response EXCEPT ![i] = r]
            /\ received' = [received EXCEPT ![i] = request_receive(r)]
            /\ result' = [result EXCEPT ![i] =
                              HandlerResume(op[i], args[i], request_receive(r))]
            /\ client' = [client EXCEPT ![i] = "closed"]
            /\ UNCHANGED outbound
    /\ UNCHANGED <<environ, op, args, access_ctx, calls, creds>>

\* The remote answers: request() finishes and the handler shapes the payload.
Respond(i, r) ==
    /\ pc[i] = "awaiting"
    /\ pc' = [pc EXCEPT ![i] = "done"]
    /\ response' = [response EXCEPT ![i] = r]
    /\ received' = [received EXCEPT ![i] = request_receive(r)]
    /\ result' = [result EXCEPT ![i] = HandlerResume(op[i], args[i], request_receive(r))]
    /\ client' = [client EXCEPT ![i] = "closed"]
    /\ UNCHANGED <<environ, op, args, access_ctx, calls, creds, outbound>>

\* No response is obtained: httpx raises inside request(), which has no
\* try block around the call.
TransportFailure(i, e) ==
    /\ pc[i] = "awaiting"
    /\ pc' = [pc EXCEPT ![i] = "done"]
    /\ received' = [received EXCEPT ![i] = e]
    /\ result' = [result EXCEPT ![i] = HandlerResume(op[i], args[i], e)]
    /\ client' = [client EXCEPT ![i] = "closed"]
    /\ UNCHANGED <<environ, op, args, access_ctx, calls, creds, outbound, response>>

\* The task running the handler is cancelled while the HTTP call is in
\* flight: asyncio.CancelledError is raised at the await inside the
\* `async with httpx.AsyncClient()` block, whose exit closes the client, and
\* then passes the except clauses of the handler.
CancelledError == Raise("asyncio.CancelledError", "")

Cancel(i) ==
    /\ pc[i] = "awaiting"
    /\ pc' = [pc EXCEPT ![i] = "cancelled"]
    /\ received' = [received EXCEPT ![i] = CancelledError]
    /\ result' = [result EXCEPT ![i] = HandlerExcept(CancelledError)]
    /\ client' = [client EXCEPT ![i] = "closed"]
    /\ UNCHANGED <<environ, op, args, access_ctx, calls, creds, outbound, response>>

Next ==
    \E i \in SeqSlots :
        \/ /\ pc[i] = "idle"
           /\ \E o \in Operations : \E a \in Args(o) : \E c \in AccessContexts :
                  Invoke(i, o, a, c)
        \/ /\ pc[i] = "awaiting"
           /\ \E r \in Responses(op[i]) : Respond(i, r)
        \/ /\ pc[i] = "awaiting"
           /\ \E e \in TransportErrors : TransportFailure(i, e)
        \/ Cancel(i)

Spec == Init /\ [][Next]_vars

(***************************************************************************)
(* Concurrent invocations: the event loop interleaves two handlers at      *)
(* their awaits.  The inputs are a part of those of Spec.                  *)
(***************************************************************************)
ConcOperations == {"get_monitor", "list_events"}

ConcArgs(o) ==
    IF o = "list_events"
    THEN {a \in Args(o) : a.filter_from = None /\ a.filter_to = None
                             /\ a.page_cursor = None}
    ELSE Args(o)

\* No context, a context whose access() fails, and contexts that give
\* different API keys and application keys.
ConcContexts ==
    {c \in AccessContexts :
        \/ c = None
        \/ /\ ~c.has_errors
           /\ \/ c.access = Raise("ResourceAccessError", "resource access failed")
              \/ /\ c.access.kind = "return"
                 /\ c.access.value.has_raw
                 /\ c.access.value.raw \in
                        {Dict([dd_application_key |-> Str("dd-app-key")]),
                         Dict([application_key |-> Str("app-key")])}}

ConcResponses(o) ==
    {JsonResponse(404, Dict([errors |-> List(<<Str("Monitor not found")>>)])),
     JsonResponse(200, FullPayload(o, List(<<CHOOSE x \in Items : "name" \in DOMAIN x.v>>))),
     TextResponse(204, "")}

ConcNext ==
    \E i \in Slots :
        \/ /\ pc[i] = "idle"
           /\ \E o \in ConcOperations : \E a \in ConcArgs(o) : \E c \in ConcContexts :
                  Invoke(i, o, a, c)
        \/ /\ pc[i] = "awaiting"
           /\ \E r \in ConcResponses(op[i]) : Respond(i, r)
        \/ /\ pc[i] = "awaiting"
           /\ \E e \in TransportErrors : TransportFailure(i, e)
        \/ Cancel(i)

ConcSpec == Init /\ [][ConcNext]_vars

(***************************************************************************)
(* The request of each handler as a function of its arguments and of the   *)
(* credentials: the call `request(...)` of the handler, up to the await.   *)
(***************************************************************************)
\* Arguments, with an empty string for an optional text parameter.
RequestArgs(o) ==
    Args(o) \cup (IF o = "list_monitors"
                  THEN [name : {Str("")}, tags : Opt(Str("env:prod")),
                        monitor_tags : {None}, page : {Num(0)}, page_size : {Num(50)}]
                  ELSE {})

RequestCredentials ==
    {DatadogCredentials(Str("dd-api-key"), Str("dd-app-key")),
     DatadogCredentials(Str("dd-api-key-2"), Str("app-key"))}

ApplyRequest(i, o, a, k) ==
    /\ pc[i] = "idle"
    /\ pc' = [pc EXCEPT ![i] = "requested"]
    /\ op' = [op EXCEPT ![i] = o]
    /\ args' = [args EXCEPT ![i] = a]
    /\ creds' = [creds EXCEPT ![i] = k]
    /\ outbound' = [outbound EXCEPT ![i] = <<HandlerRequest(o, a, k).value>>]
    /\ UNCHANGED <<environ, access_ctx, calls, response, received, result, client>>

RequestNext ==
    \E i \in SeqSlots :
        /\ pc[i] = "idle"
        /\ \E o \in Operations : \E a \in RequestArgs(o) : \E k \in RequestCredentials :
               ApplyRequest(i, o, a, k)

RequestSpec == Init /\ [][RequestNext]_vars

(***************************************************************************)
(* The shapers as functions of the payload: the statements of a handler    *)
(* after `data = await request(...)`, applied to every payload, and        *)
(* applied a second time for the same parameters.                          *)
(***************************************************************************)
ApplyShape(i, o, a, p) ==
    /\ pc[i] = "idle"
    /\ pc' = [pc EXCEPT ![i] = "shaped"]
    /\ op' = [op EXCEPT ![i] = o]
    /\ args' = [args EXCEPT ![i] = a]
    /\ received' = [received EXCEPT ![i] = Return(p)]
    /\ result' = [result EXCEPT ![i] = HandlerResume(o, a, Return(p))]
    /\ UNCHANGED <<environ, access_ctx, calls, creds, outbound, response, client>>

ShapeNext ==
    \/ /\ pc[1] = "idle"
       /\ \E o \in Operations : \E a \in Args(o) : \E p \in Payloads(o) :
              ApplyShape(1, o, a, p)
    \/ /\ pc[1] = "shaped"
       /\ \E p \in Payloads(op[1]) : ApplyShape(2, op[1], args[1], p)

ShapeSpec == Init /\ [][ShapeNext]_vars

(***************************************************************************)
(* Properties                                                              *)
(***************************************************************************)
Done(i) == pc[i] = "done"
Started(i) == pc[i] # "idle"

\* The handler returned a failure envelope {success: false, error, isError: true}.
IsFailure(res) ==
    /\ res.kind = "return"
    /\ IsDict(res.value)
    /\ DOMAIN res.value.v = {"success", "error", "isError"}
    /\ res.value.v["success"] = Bool(FALSE)
    /\ res.value.v["isError"] = Bool(TRUE)
    /\ res.value.v["error"].t = "str"

\* The handler returned a success envelope.
IsSuccess(res) ==
    /\ res.kind = "return"
    /\ IsDict(res.value)
    /\ "success" \in DOMAIN res.value.v
    /\ res.value.v["success"] = Bool(TRUE)

\* Credential resolution failed in the invocation of slot i.
CredentialFailed(i) == Started(i) /\ creds[i] = None

\* The remote answered the invocation of slot i with an error status.
RemoteError(i) == response[i] # None /\ response[i].status_code >= 400

\* C1: every invocation of every operation ends by returning a success
\* envelope or a failure envelope, and when credential resolution failed or
\* the remote reported an error it ends with the failure envelope: no
\* exception escapes the handler.
C1_EnvelopeOrFailure ==
    \A i \in Slots :
        Done(i) =>
            /\ IsSuccess(result[i]) \/ IsFailure(result[i])
            /\ (CredentialFailed(i) \/ RemoteError(i)) => IsFailure(result[i])

\* C2: when the credential resolver fails, the invocation returns the failure
\* envelope (success false, isError true) and no HTTP call is made.
C2_ResolverFailureEnvelope ==
    \A i \in Slots :
        CredentialFailed(i) =>
            /\ Done(i)
            /\ IsFailure(result[i])
            /\ outbound[i] = <<>>

\* The message the handler reports for the upstream errors of a context.
ExpectedAuthMessage(errors) ==
    CASE errors = <<"invalid_token">> -> "Authentication errors: ['invalid_token']"
      [] errors = <<"invalid_token", "expired">> ->
           "Authentication errors: ['invalid_token', 'expired']"

\* C3: get_datadog_credentials checks in a fixed order: without a context it
\* fails with the no-context error and calls neither has_errors() nor
\* access(); with has_errors() true it fails with "Authentication errors:
\* <get_errors()>", never calls access() and no HTTP call is made; otherwise
\* it calls access() exactly once, with the resource URL constant.
C3_ResolverOrder ==
    \A i \in Slots :
        (Started(i) /\ op[i] \in ContextOperations) =>
            IF access_ctx[i] = None
            THEN /\ result[i] = Return(FailureEnvelope(NoContextMessage))
                 /\ calls[i].has_errors = 0
                 /\ calls[i].access = <<>>
                 /\ outbound[i] = <<>>
            ELSE IF access_ctx[i].has_errors
            THEN /\ result[i] =
                        Return(FailureEnvelope(ExpectedAuthMessage(access_ctx[i].errors)))
                 /\ calls[i].access = <<>>
                 /\ outbound[i] = <<>>
            ELSE /\ calls[i].has_errors = 1
                 /\ calls[i].access = <<"https://api.us5.datadoghq.com">>

\* C3 witness: a context with upstream errors was resolved.
C3_Witness ==
    \E i \in Slots :
        /\ Done(i)
        /\ op[i] = "get_monitor"
        /\ access_ctx[i] # None
        /\ access_ctx[i].has_errors
        /\ calls[i].has_errors = 1
        /\ result[i] =
               Return(FailureEnvelope("Authentication errors: ['invalid_token']"))

\* The invocation of slot i obtained a token response from access().
TokenObtained(i) ==
    /\ Started(i)
    /\ op[i] \in ContextOperations
    /\ access_ctx[i] # None
    /\ ~access_ctx[i].has_errors
    /\ access_ctx[i].access.kind = "return"

\* The raw mapping of the token response of slot i ({} when there is none).
RawOf(i) ==
    LET tr == access_ctx[i].access.value
    IN  IF tr.has_raw /\ tr.raw # None THEN tr.raw.v ELSE <<>>

\* C4 as stated: the application key is raw.dd_application_key when that
\* entry is present, otherwise raw.application_key, and resolution fails with
\* the missing-application-key error, returning no credentials, when both
\* are absent.
C4_AppKeyWhenPresent ==
    \A i \in Slots :
        TokenObtained(i) =>
            LET raw == RawOf(i)
            IN  IF "dd_application_key" \in DOMAIN raw
                THEN creds[i] # None
                     /\ creds[i].application_key = raw["dd_application_key"]
                ELSE IF "application_key" \in DOMAIN raw
                THEN creds[i] # None
                     /\ creds[i].application_key = raw["application_key"]
                ELSE /\ creds[i] = None
                     /\ result[i] = Return(FailureEnvelope(MissingAppKeyMessage))

\* An entry of the raw mapping that is present and not empty.
NonEmptyEntry(raw, k) == k \in DOMAIN raw /\ raw[k] \notin {None, Str("")}

\* C4 amended: the application key is raw.dd_application_key when that entry
\* is present and non-empty, otherwise raw.application_key when that one is
\* present and non-empty; when neither is (also without a raw mapping)
\* resolution fails with the missing-application-key error and returns no
\* credentials.
C4_AppKeyWhenNonEmpty ==
    \A i \in Slots :
        TokenObtained(i) =>
            LET raw == RawOf(i)
            IN  IF NonEmptyEntry(raw, "dd_application_key")
                THEN creds[i] # None
                     /\ creds[i].application_key = raw["dd_application_key"]
                ELSE IF NonEmptyEntry(raw, "application_key")
                THEN creds[i] # None
                     /\ creds[i].application_key = raw["application_key"]
                ELSE /\ creds[i] = None
                     /\ result[i] = Return(FailureEnvelope(MissingAppKeyMessage))

\* C4 witness: an empty dd_application_key fell back to application_key.
C4_Witness ==
    \E i \in Slots :
        /\ TokenObtained(i)
        /\ access_ctx[i].access.value.raw =
               Dict([dd_application_key |-> Str(""), application_key |-> Str("app-key")])
        /\ creds[i] # None
        /\ creds[i].application_key = Str("app-key")

\* C5: the resolver never returns credentials whose api_key is empty or
\* absent; an empty or null access_token makes resolution fail with a
\* credential error.
C5_ApiKeyNonEmpty ==
    \A i \in Slots :
        TokenObtained(i) =>
            /\ creds[i] # None =>
                   creds[i].api_key.t = "str" /\ creds[i].api_key.v # ""
            /\ access_ctx[i].access.value.access_token = Str("") =>
                   creds[i] = None /\ IsFailure(result[i])

\* C6: when ctx.access(resourceURL) itself fails, the invocation returns the
\* failure envelope instead of raising.
C6_AccessFailureEnvelope ==
    \A i \in Slots :
        ( /\ Started(i)
          /\ op[i] \in ContextOperations
          /\ access_ctx[i] # None
          /\ ~access_ctx[i].has_errors
          /\ access_ctx[i].access.kind = "raise" ) =>
            Done(i) /\ IsFailure(result[i])

\* Both credential variables are set and non-empty in the environment.
EnvComplete ==
    /\ environ.DD_API_KEY \notin {None, Str("")}
    /\ environ.DD_APPLICATION_KEY \notin {None, Str("")}

\* C7: the operations that take no access context resolve the credentials
\* from the two environment variables, and fail with a credential error when
\* one of them is unset or empty.
C7_EnvironmentResolution ==
    \A i \in Slots :
        (Started(i) /\ op[i] \in NoContextOperations) =>
            IF EnvComplete
            THEN creds[i] =
                     DatadogCredentials(environ.DD_API_KEY, environ.DD_APPLICATION_KEY)
            ELSE Done(i) /\ IsFailure(result[i])

\* The body of the response parsed to an object whose errors entry is a list
\* of strings.
HasErrorsList(r) ==
    /\ r.json.kind = "return"
    /\ IsDict(r.json.value)
    /\ "errors" \in DOMAIN r.json.value.v
    /\ r.json.value.v["errors"].t = "list"
    /\ \A n \in 1..Len(r.json.value.v["errors"].v) :
           r.json.value.v["errors"].v[n].t = "str"

\* The errors list of the body, joined.
JoinedErrors(r) ==
    LET errors == r.json.value.v["errors"].v
    IN  JoinWith("; ", [n \in 1..Len(errors) |-> errors[n].v])

ErrorPrefix(r) == "Datadog API error (" \o ToString(r.status_code) \o "): "

\* The remote answered with status >= 400 and request() raised
\* DatadogClientError with that status, which the handler turned into the
\* failure envelope.
ErrorStatusFails(i) ==
    /\ received[i].kind = "raise"
    /\ received[i].type = "DatadogClientError"
    /\ received[i].status_code = response[i].status_code
    /\ IsFailure(result[i])
    /\ result[i].value.v["error"] = Str(received[i].message)

\* C8 as stated: for a status >= 400 request() fails with DatadogClientError
\* carrying the status, and the error of the envelope is the joined errors
\* list of the body when the body is parseable, the raw text otherwise.
C8_ErrorFromBody ==
    \A i \in Slots :
        (Done(i) /\ RemoteError(i)) =>
            LET r == response[i]
            IN  /\ ErrorStatusFails(i)
                /\ HasErrorsList(r) =>
                       result[i] = Return(FailureEnvelope(ErrorPrefix(r) \o JoinedErrors(r)))
                /\ r.json.kind = "raise" =>
                       result[i] = Return(FailureEnvelope(ErrorPrefix(r) \o r.text))

\* C8 amended: for a status >= 400 request() fails with DatadogClientError
\* carrying the status, and the error of the envelope is "Datadog API error
\* (<status>): " followed by the joined errors list when the body parses to
\* an object with a non-empty errors list of strings, and by the raw text
\* when the body does not parse, has no errors entry or has an empty one.
C8_ErrorFromNonEmptyErrors ==
    \A i \in Slots :
        (Done(i) /\ RemoteError(i)) =>
            LET r == response[i]
            IN  /\ ErrorStatusFails(i)
                /\ (HasErrorsList(r) /\ JoinedErrors(r) # "") =>
                       result[i] = Return(FailureEnvelope(ErrorPrefix(r) \o JoinedErrors(r)))
                /\ ( \/ r.json.kind = "raise"
                     \/ (HasErrorsList(r) /\ Len(r.json.value.v["errors"].v) = 0)
                     \/ ( /\ r.json.kind = "return"
                          /\ IsDict(r.json.value)
                          /\ "errors" \notin DOMAIN r.json.value.v ) ) =>
                       result[i] = Return(FailureEnvelope(ErrorPrefix(r) \o r.text))

\* C8 witness: the 404 of the scenario, with one entry in errors.
C8_Witness ==
    \E i \in Slots :
        /\ Done(i)
        /\ op[i] = "get_monitor"
        /\ response[i] # None
        /\ response[i].status_code = 404
        /\ response[i].text = "{\"errors\": [\"Monitor not found\"]}"
        /\ result[i] =
               Return(FailureEnvelope("Datadog API error (404): Monitor not found"))

\* A shaped value with nothing in it: null, an empty list or a zero count.
IsEmptyValue(x) == x \in {None, EmptyList, Num(0)}

\* C9: when the remote answers with status 204 or an empty body (status
\* below 400), request() returns an empty mapping and the operation returns
\* a success envelope whose collections are empty, whose counts are 0 and
\* whose other fields are null.
C9_EmptyBodySuccess ==
    \A i \in Slots :
        ( /\ Done(i)
          /\ response[i] # None
          /\ response[i].status_code < 400
          /\ (response[i].status_code = 204 \/ response[i].text = "") ) =>
            /\ received[i] = Return(EmptyDict)
            /\ IsSuccess(result[i])
            /\ \A k \in DOMAIN result[i].value.v \ {"success"} :
                   LET x == result[i].value.v[k]
                   IN  \/ IsEmptyValue(x)
                       \/ IsDict(x) /\ \A j \in DOMAIN x.v : IsEmptyValue(x.v[j])
            /\ op[i] = "list_monitors" =>
                   result[i] = Return(Dict([success |-> Bool(TRUE),
                                            monitors |-> EmptyList, count |-> Num(0)]))
            /\ op[i] = "list_hosts" =>
                   result[i] = Return(Dict([success |-> Bool(TRUE), hosts |-> EmptyList,
                                            count |-> Num(0), total_matching |-> None,
                                            total_returned |-> None]))

\* C9 witness: list_monitors got a 204 and returned its empty success envelope.
C9_Witness ==
    \E i \in Slots :
        /\ Done(i)
        /\ op[i] = "list_monitors"
        /\ response[i] # None
        /\ response[i].status_code = 204
        /\ IsSuccess(result[i])
        /\ result[i].value.v["count"] = Num(0)

\* A JSON value with a null in it, at any depth.
RECURSIVE HasNull(_)
HasNull(x) ==
    \/ x = None
    \/ x.t = "obj" /\ \E k \in DOMAIN x.v : HasNull(x.v[k])
    \/ x.t = "list" /\ \E n \in 1..Len(x.v) : HasNull(x.v[n])

\* C10: no outbound request carries a null: neither a query-string entry nor
\* an entry of the JSON body, at any nesting depth.
C10_NoNullSent ==
    \A i \in Slots :
        \A n \in 1..Len(outbound[i]) :
            /\ outbound[i][n].params # None => ~HasNull(outbound[i][n].params)
            /\ outbound[i][n].json # None => ~HasNull(outbound[i][n].json)

\* The invocation of slot i made its HTTP call and httpx raised: no response
\* was obtained.
NoResponse(i) == Done(i) /\ Len(outbound[i]) > 0 /\ response[i] = None

\* C11: a timeout or another transport failure without an HTTP response is
\* reported by request() as DatadogClientError, and the operation returns the
\* failure envelope instead of letting the exception propagate.
C11_TransportFailureEnvelope ==
    \A i \in Slots :
        NoResponse(i) =>
            /\ received[i].kind = "raise"
            /\ received[i].type = "DatadogClientError"
            /\ IsFailure(result[i])

Is2xx(status_code) == status_code \in 200..299

\* C12: every remote response whose status is not 2xx (a 3xx included)
\* yields the failure envelope, and an operation returns a success envelope
\* only when the remote status is 2xx.
C12_Non2xxFails ==
    \A i \in Slots :
        (Done(i) /\ response[i] # None) =>
            /\ ~Is2xx(response[i].status_code) => IsFailure(result[i])
            /\ IsSuccess(result[i]) => Is2xx(response[i].status_code)

\* C13: an invocation issues at most one HTTP call: exactly one when the
\* credentials were resolved and none when they were not; a remote call that
\* failed (error status or no response) is not repeated, the invocation ends
\* with the failure of that one attempt.
C13_OneCallNoRetry ==
    \A i \in Slots :
        /\ Len(outbound[i]) <= 1
        /\ (Started(i) /\ creds[i] # None) => Len(outbound[i]) = 1
        /\ CredentialFailed(i) => Len(outbound[i]) = 0
        /\ (Done(i) /\ (RemoteError(i) \/ NoResponse(i))) =>
               /\ Len(outbound[i]) = 1
               /\ IsFailure(result[i]) \/ result[i].kind = "raise"

\* C13 witness: get_host_totals got a 500 and failed after its one call.
C13_Witness ==
    \E i \in Slots :
        /\ Done(i)
        /\ op[i] = "get_host_totals"
        /\ response[i] # None
        /\ response[i].status_code = 500
        /\ Len(outbound[i]) = 1
        /\ outbound[i][1].url = "https://api.us5.datadoghq.com/api/v1/hosts/totals"
        /\ IsFailure(result[i])

\* The statements after the await ran for slot i, on a payload.
Shaped_(i) == pc[i] = "shaped"

CursorOperations == {"search_logs", "list_events", "search_spans"}

\* The key path is present in x: every key is there and leads to an object
\* until the last.
RECURSIVE HasPath(_, _)
HasPath(x, path) ==
    \/ path = <<>>
    \/ /\ IsDict(x)
       /\ Head(path) \in DOMAIN x.v
       /\ HasPath(x.v[Head(path)], Tail(path))

\* The value at the end of a key path that is present in x.
RECURSIVE AtPath(_, _)
AtPath(x, path) == IF path = <<>> THEN x ELSE AtPath(x.v[Head(path)], Tail(path))

\* C14: in the success envelope of search_logs, list_events and
\* search_spans, next_cursor is meta.page.after of the raw payload, and null
\* when meta, page or after is missing; a payload that only lacks a key of
\* that path still gives the success envelope.
C14_CursorPropagation ==
    \A i \in Slots :
        (Shaped_(i) /\ op[i] \in CursorOperations) =>
            LET data == received[i].value
                path == <<"meta", "page", "after">>
            IN  /\ IsSuccess(result[i]) =>
                       /\ "next_cursor" \in DOMAIN result[i].value.v
                       /\ result[i].value.v["next_cursor"] =
                              IF HasPath(data, path) THEN AtPath(data, path) ELSE None
                /\ (IsDict(data) /\ ~HasPath(data, path)
                       /\ HasPath(data, <<"data">>) /\ data.v["data"] = EmptyList) =>
                       /\ IsSuccess(result[i])
                       /\ result[i].value.v["next_cursor"] = None

\* C14 witness: search_spans shaped a payload whose meta.page.after is "c2".
C14_Witness ==
    \E i \in Slots :
        /\ Shaped_(i)
        /\ op[i] = "search_spans"
        /\ HasPath(received[i].value, <<"meta", "page", "after">>)
        /\ IsSuccess(result[i])
        /\ result[i].value.v["next_cursor"] = Str("c2")

\* The field of the success envelope that holds the projected collection
\* of an operation; the count is in "count" beside it (in "widget_count" for
\* the widgets of get_dashboard).
CollectionField(o) ==
    CASE o = "list_monitors" -> "monitors"
      [] o = "list_hosts" -> "hosts"
      [] o = "query_metrics" -> "series"
      [] o = "list_active_metrics" -> "metrics"
      [] o = "search_logs" -> "logs"
      [] o = "list_events" -> "events"
      [] o = "list_dashboards" -> "dashboards"
      [] o = "get_dashboard" -> "widgets"
      [] o = "list_incidents" -> "incidents"
      [] o = "list_slos" -> "slos"
      [] o = "search_spans" -> "spans"

CollectionOperations ==
    {"list_monitors", "list_hosts", "query_metrics", "list_active_metrics",
     "search_logs", "list_events", "list_dashboards", "get_dashboard",
     "list_incidents", "list_slos", "search_spans"}

\* The object of the success envelope that holds the collection and its count.
CollectionHolder(o, envelope) ==
    IF o = "get_dashboard" THEN envelope.v["dashboard"] ELSE envelope

\* The collection of the raw payload (the payload itself for list_monitors;
\* no collection when the key is missing).
RawCollection(o, data) ==
    IF o = "list_monitors" THEN data
    ELSE IF PayloadKey(o) \in DOMAIN data.v THEN data.v[PayloadKey(o)]
    ELSE EmptyList

\* The number of items of a raw collection.
RawCount(x) == IF x.t = "list" THEN Len(x.v) ELSE Cardinality(DOMAIN x.v)

\* C15: in the success envelope of a collection-returning operation the
\* count is the length of the projected collection of the same envelope,
\* which is the number of items of the collection of the raw payload
\* (widget_count and widgets for get_dashboard).
C15_CountIsLength ==
    \A i \in Slots :
        (Shaped_(i) /\ op[i] \in CollectionOperations /\ IsSuccess(result[i])) =>
            LET holder == CollectionHolder(op[i], result[i].value).v
                collection == holder[CollectionField(op[i])]
                count == IF op[i] = "get_dashboard" THEN holder["widget_count"]
                         ELSE holder["count"]
            IN  /\ collection.t = "list"
                /\ count = Num(Len(collection.v))
                /\ Len(collection.v) = RawCount(RawCollection(op[i], received[i].value))

\* C15 witness: list_hosts shaped a host_list of two hosts.
C15_Witness ==
    \E i \in Slots :
        /\ Shaped_(i)
        /\ op[i] = "list_hosts"
        /\ IsSuccess(result[i])
        /\ HasPath(received[i].value, <<"host_list">>)
        /\ Len(received[i].value.v["host_list"].v) = 2
        /\ result[i].value.v["count"] = Num(2)
        /\ Len(result[i].value.v["hosts"].v) = 2

\* The payload has the outer form the handler of o navigates: a JSON object
\* (a list for list_monitors) whose collection, when present, is a list of
\* objects, or one object for the operations that return one.  Fields and
\* nested objects inside may be missing or null.
OuterFormOk(o, data) ==
    IF o = "list_monitors"
    THEN data.t = "list" /\ \A n \in 1..Len(data.v) : IsDict(data.v[n])
    ELSE /\ IsDict(data)
         /\ LET c == RawCollection(o, data)
            IN  IF o \in ObjectOperations THEN IsDict(c) \/ c = EmptyList
                ELSE c.t = "list" /\ \A n \in 1..Len(c.v) : IsDict(c.v[n])

\* C16: a payload in which fields or intermediate keys of a navigated path
\* (attributes, attributes.evt, definition, data, meta, page) are missing
\* still gives the success envelope, with null for each output field whose
\* raw field is missing: the defensive access never raises.
C16_MissingFieldsTolerated ==
    \A i \in Slots :
        ( /\ Done(i)
          /\ received[i] # None
          /\ received[i].kind = "return"
          /\ OuterFormOk(op[i], received[i].value) ) =>
            /\ IsSuccess(result[i])
            /\ op[i] \in CollectionOperations =>
                   LET holder == CollectionHolder(op[i], result[i].value).v
                       out == holder[CollectionField(op[i])].v
                       raw == RawCollection(op[i], received[i].value).v
                   IN  \A n \in 1..Len(out) :
                           \A k \in DOMAIN out[n].v :
                               (DOMAIN raw[n].v \cap {k, "attributes", "definition"} = {})
                                   => out[n].v[k] = None

\* The value at a key path of x, null when the path is not present.
ValueAt(x, path) == IF HasPath(x, path) THEN AtPath(x, path) ELSE None

\* The operations whose handler projects each item of a collection.
ItemOperations == CollectionOperations \ {"list_active_metrics"}

\* The allow-list of the projected item (or object) of an operation.
AllowList(o) ==
    CASE o = "list_monitors" ->
           {"id", "name", "type", "query", "overall_state", "message", "tags",
            "created", "modified"}
      [] o = "get_monitor" ->
           {"id", "name", "type", "query", "overall_state", "message", "tags",
            "options", "state", "created", "modified", "creator"}
      [] o = "list_hosts" ->
           {"name", "id", "aliases", "apps", "sources", "up", "is_muted",
            "last_reported_time", "meta"}
      [] o = "query_metrics" ->
           {"metric", "display_name", "scope", "expression", "unit", "pointlist",
            "length", "start", "end", "interval", "tag_set"}
      [] o = "search_logs" ->
           {"id", "timestamp", "status", "service", "message", "host", "tags"}
      [] o = "list_events" ->
           {"id", "type", "timestamp", "title", "message", "tags", "status"}
      [] o = "list_dashboards" ->
           {"id", "title", "description", "layout_type", "url", "created_at",
            "modified_at", "author_handle"}
      [] o = "get_dashboard" -> {"id", "type", "title"}
      [] o = "list_incidents" ->
           {"id", "type", "title", "status", "severity", "created", "modified",
            "resolved", "customer_impact_scope"}
      [] o = "get_incident" ->
           {"id", "type", "title", "status", "severity", "created", "modified",
            "resolved", "detected", "customer_impact_scope", "customer_impact_start",
            "customer_impact_end", "fields", "notification_handles"}
      [] o = "list_slos" ->
           {"id", "name", "description", "type", "tags", "thresholds",
            "created_at", "modified_at"}
      [] o = "get_slo" ->
           {"id", "name", "description", "type", "tags", "thresholds", "query",
            "groups", "monitor_ids", "created_at", "modified_at", "creator"}
      [] o = "search_spans" ->
           {"id", "type", "timestamp", "service", "resource_name", "span_id",
            "trace_id", "duration", "status", "host", "env", "operation_name"}

\* The fixed path in the raw item from which output field k is taken.
FieldPath(o, k) ==
    IF o \in {"search_logs", "list_events", "list_incidents", "get_incident",
              "search_spans"}
    THEN IF k \in {"id", "type"} THEN <<k>>
         ELSE IF o = "list_events" /\ k = "title" THEN <<"attributes", "evt", "name">>
         ELSE <<"attributes", k>>
    ELSE IF o = "get_dashboard"
    THEN IF k = "id" THEN <<k>> ELSE <<"definition", k>>
    ELSE <<k>>

\* out is the projection of raw on the allow-list of o, values unchanged.
IsProjection(o, out, raw) ==
    /\ IsDict(out)
    /\ DOMAIN out.v = AllowList(o)
    /\ \A k \in DOMAIN out.v : out.v[k] = ValueAt(raw, FieldPath(o, k))

\* The envelope-level fields an operation copies from the top level of the
\* payload.
TopLevelFields(o) ==
    CASE o = "list_hosts" -> {"total_matching", "total_returned"}
      [] o = "get_host_totals" -> {"total_active", "total_up"}
      [] o = "query_metrics" -> {"from_date", "to_date", "query"}
      [] OTHER -> {}

\* The keys of the success envelope of an operation.
EnvelopeKeys(o) ==
    {"success"} \cup TopLevelFields(o)
    \cup (IF o \in CollectionOperations \ {"get_dashboard"}
          THEN {CollectionField(o), "count"} ELSE {})
    \cup (IF o \in CursorOperations THEN {"next_cursor"} ELSE {})
    \cup (CASE o = "get_monitor" -> {"monitor"}
            [] o = "get_dashboard" -> {"dashboard"}
            [] o = "get_incident" -> {"incident"}
            [] o = "get_slo" -> {"slo"}
            [] o = "get_slo_history" -> {"slo_id", "overall", "thresholds", "series"}
            [] OTHER -> {})

\* C17: each shaper projects a fixed allow-list: the success envelope has
\* the fixed keys of its operation, every projected item or object has
\* exactly the keys of the allow-list, each with the unchanged value of the
\* same-named or fixed-path field of the raw payload (null when absent), and
\* no other field of the payload appears; get_monitor and list_hosts give the
\* envelopes of the two scenarios.
C17_AllowListProjection ==
    \A i \in Slots :
        (Shaped_(i) /\ IsSuccess(result[i])) =>
            LET o == op[i]
                env == result[i].value.v
                data == received[i].value
            IN  /\ DOMAIN env = EnvelopeKeys(o)
                /\ \A k \in TopLevelFields(o) : env[k] = ValueAt(data, <<k>>)
                /\ o \in ItemOperations =>
                       LET out == CollectionHolder(o, result[i].value).v[CollectionField(o)].v
                           raw == RawCollection(o, data).v
                       IN  \A n \in 1..Len(out) : IsProjection(o, out[n], raw[n])
                /\ o = "list_active_metrics" =>
                       env["metrics"] = RawCollection(o, data)
                /\ o = "get_monitor" => IsProjection(o, env["monitor"], data)
                /\ o = "get_slo" => IsProjection(o, env["slo"], RawCollection(o, data))
                /\ o = "get_incident" =>
                       IsProjection(o, env["incident"], RawCollection(o, data))
                /\ o = "get_slo_history" =>
                       /\ env["slo_id"] = args[i].slo_id
                       /\ \A k \in {"overall", "thresholds", "series"} :
                              env[k] = ValueAt(RawCollection(o, data), <<k>>)
                /\ o = "get_dashboard" =>
                       /\ DOMAIN env["dashboard"].v =
                              {"id", "title", "description", "layout_type", "url",
                               "widgets", "widget_count", "template_variables",
                               "created_at", "modified_at", "author_handle"}
                       /\ \A k \in DOMAIN env["dashboard"].v \ {"widgets", "widget_count"} :
                              env["dashboard"].v[k] = ValueAt(data, <<k>>)
                /\ (o = "get_monitor" /\ data = FullPayload(o, EmptyList)) =>
                       env["monitor"] =
                           Dict([id |-> Num(123), name |-> Str("cpu-high"),
                                 type |-> Str("metric alert"), overall_state |-> Str("OK"),
                                 query |-> None, message |-> None, tags |-> None,
                                 options |-> None, state |-> None, created |-> None,
                                 modified |-> None, creator |-> None])
                /\ (o = "list_hosts" /\ data = FullPayload(o, EmptyList)) =>
                       result[i].value =
                           Dict([success |-> Bool(TRUE), hosts |-> EmptyList,
                                 count |-> Num(0), total_matching |-> Num(0),
                                 total_returned |-> Num(0)])

\* C17 witness: get_monitor shaped the payload of the scenario, which also
\* carries a field outside the allow-list.
C17_Witness ==
    \E i \in Slots :
        /\ Shaped_(i)
        /\ op[i] = "get_monitor"
        /\ HasPath(received[i].value, <<"secret">>)
        /\ IsSuccess(result[i])
        /\ result[i].value.v["monitor"].v["id"] = Num(123)
        /\ result[i].value.v["monitor"].v["name"] = Str("cpu-high")
        /\ "secret" \notin DOMAIN result[i].value.v["monitor"].v

ListOperations ==
    {"list_monitors", "list_hosts", "list_active_metrics", "list_events",
     "list_dashboards", "list_incidents", "list_slos"}

\* C18: a list_* operation applied twice with the same parameters to the
\* same payload gives the same output, and the n-th element of the output
\* collection is the projection of the n-th element of the raw collection:
\* nothing is sorted, filtered or reordered.
C18_IdempotentOrdered ==
    /\ ( /\ Shaped_(1) /\ Shaped_(2)
         /\ op[1] \in ListOperations
         /\ op[2] = op[1] /\ args[2] = args[1]
         /\ received[2] = received[1] ) => result[2] = result[1]
    /\ \A i \in Slots :
           (Shaped_(i) /\ op[i] \in ListOperations /\ IsSuccess(result[i])) =>
               LET out == result[i].value.v[CollectionField(op[i])].v
                   raw == RawCollection(op[i], received[i].value).v
               IN  /\ Len(out) = Len(raw)
                   /\ \A n \in 1..Len(out) :
                          IF op[i] = "list_active_metrics" THEN out[n] = raw[n]
                          ELSE IsProjection(op[i], out[n], raw[n])

\* C18 witness: list_slos shaped the same two different SLOs twice.
C18_Witness ==
    /\ Shaped_(1) /\ Shaped_(2)
    /\ op[1] = "list_slos" /\ op[2] = "list_slos"
    /\ args[2] = args[1]
    /\ received[2] = received[1]
    /\ IsSuccess(result[1])
    /\ result[2] = result[1]
    /\ Len(result[1].value.v["slos"].v) = 2
    /\ result[1].value.v["slos"].v[1].v["id"] = Str("a")
    /\ result[1].value.v["slos"].v[2].v["id"] = Str("b")

\* What an invocation of o with arguments a and context c returns or raises
\* when it runs alone and its HTTP call ends with `remote` (a response, or
\* the exception raised at the await).
SoloResult(o, a, c, remote) ==
    LET resolved == HandlerCredentials(o, c)
    IN  IF resolved.outcome.kind = "raise" THEN HandlerExcept(resolved.outcome)
        ELSE IF "status_code" \in DOMAIN remote
        THEN HandlerResume(o, a, request_receive(remote))
        ELSE HandlerResume(o, a, remote)

\* C19: under every interleaving of two invocations at their awaits, the
\* result of each is the result it gives when run alone with the same
\* arguments, access context and remote response, and its credentials and
\* its outbound request are those resolved from its own context.
C19_ConcurrentAsAlone ==
    \A i \in Slots :
        /\ pc[i] \in {"done", "cancelled"} =>
               result[i] = SoloResult(op[i], args[i], access_ctx[i],
                                      IF response[i] # None THEN response[i]
                                      ELSE IF received[i] # None THEN received[i]
                                      ELSE [kind |-> "none"])
        /\ pc[i] = "awaiting" =>
               /\ Return(creds[i]) = HandlerCredentials(op[i], access_ctx[i]).outcome
               /\ outbound[i] = <<HandlerRequest(op[i], args[i], creds[i]).value>>

\* C19 witness: two invocations of get_monitor with different arguments
\* were in flight together and ended with different results.
C19_Witness ==
    /\ Done(1) /\ Done(2)
    /\ op[1] = "get_monitor" /\ op[2] = "get_monitor"
    /\ args[1] # args[2]
    /\ access_ctx[1] # access_ctx[2]
    /\ response[1] # None /\ response[2] # None
    /\ response[1].status_code = 404 /\ response[2].status_code = 200
    /\ IsFailure(result[1])
    /\ IsSuccess(result[2])

\* C20: when an invocation is cancelled while its HTTP call is in flight,
\* the HTTP client opened for the call is closed and the invocation gives no
\* envelope: the cancellation leaves the handler as an exception, no payload
\* was received or shaped, and it is turned neither into a success nor into
\* a failure envelope.  A client is open only while its call is in flight.
C20_CancelReleasesNoResult ==
    \A i \in Slots :
        /\ pc[i] = "cancelled" =>
               /\ client[i] = "closed"
               /\ response[i] = None
               /\ received[i] = CancelledError
               /\ result[i] = CancelledError
               /\ ~IsSuccess(result[i]) /\ ~IsFailure(result[i])
        /\ client[i] = "open" <=> pc[i] = "awaiting"

\* C20 witness: search_logs was cancelled after its request had been sent.
C20_Witness ==
    \E i \in Slots :
        /\ pc[i] = "cancelled"
        /\ op[i] = "search_logs"
        /\ Len(outbound[i]) = 1
        /\ outbound[i][1].method = "POST"
        /\ client[i] = "closed"
        /\ result[i].kind = "raise"

\* The fixed part of the path of each operation.
PathPrefix(o) ==
    CASE o = "list_monitors" -> "/api/v1/monitor"
      [] o = "get_monitor" -> "/api/v1/monitor/"
      [] o = "list_hosts" -> "/api/v1/hosts"
      [] o = "get_host_totals" -> "/api/v1/hosts/totals"
      [] o = "query_metrics" -> "/api/v1/query"
      [] o = "list_active_metrics" -> "/api/v1/metrics"
      [] o = "search_logs" -> "/api/v2/logs/events/search"
      [] o = "list_events" -> "/api/v2/events"
      [] o = "list_dashboards" -> "/api/v1/dashboard"
      [] o = "get_dashboard" -> "/api/v1/dashboard/"
      [] o = "list_incidents" -> "/api/v2/incidents"
      [] o = "get_incident" -> "/api/v2/incidents/"
      [] o = "list_slos" -> "/api/v1/slo"
      [] o = "get_slo" -> "/api/v1/slo/"
      [] o = "get_slo_history" -> "/api/v1/slo/"
      [] o = "search_spans" -> "/api/v2/spans/events/search"

\* The part of the path that comes from the arguments: the identifier of
\* the object asked for.
PathSuffix(o, a) ==
    CASE o = "get_monitor" -> ToString(a.monitor_id.v)
      [] o = "get_dashboard" -> a.dashboard_id.v
      [] o = "get_incident" -> a.incident_id.v
      [] o = "get_slo" -> a.slo_id.v
      [] o = "get_slo_history" -> a.slo_id.v \o "/history"
      [] OTHER -> ""

SearchOperations == {"search_logs", "search_spans"}

\* The request of slot i was built from its arguments and credentials.
Requested(i) == pc[i] = "requested"

\* C21: every outbound request is a GET, except those of search_logs and
\* search_spans, which are POSTs to their search endpoints; no request is a
\* PUT, PATCH or DELETE; the method and the path prefix of an operation are
\* the same for all arguments, which only supply the identifier at the end
\* of the path.
C21_ReadOnlyRequests ==
    \A i \in Slots :
        \A n \in 1..Len(outbound[i]) :
            LET call == outbound[i][n]
            IN  /\ call.method \in {"GET", "POST"}
                /\ call.method = "POST" <=> op[i] \in SearchOperations
                /\ call.url = "https://api.us5.datadoghq.com" \o PathPrefix(op[i])
                                  \o PathSuffix(op[i], args[i])
                /\ call.json # None <=> op[i] \in SearchOperations

\* C21 witness: search_spans built its POST to the spans search endpoint.
C21_Witness ==
    \E i \in Slots :
        /\ Requested(i)
        /\ op[i] = "search_spans"
        /\ Len(outbound[i]) = 1
        /\ outbound[i][1].method = "POST"
        /\ outbound[i][1].url =
               "https://api.us5.datadoghq.com/api/v2/spans/events/search"

\* The exception raised inside the try block of the handler of slot i, if
\* one was: by the credential resolver, by request(), or by the shaping
\* statements.
RaisedInTry(i) ==
    LET resolved == HandlerCredentials(op[i], access_ctx[i]).outcome
    IN  IF resolved.kind = "raise" THEN resolved
        ELSE IF received[i] = None THEN None
        ELSE IF received[i].kind = "raise" THEN received[i]
        ELSE LET shaped == HandlerShape(op[i], args[i], received[i].value)
             IN  IF IsCrash(shaped) THEN Raise(shaped.v, "raised while shaping")
                 ELSE None

\* C22: the handlers have no catch-all: an exception raised in the try block
\* becomes the failure envelope exactly when it is a ValueError (the
\* credential error kind, subclasses included) or a DatadogClientError; any
\* other exception, raised while resolving credentials, in the transport or
\* while shaping, leaves the handler unchanged and no envelope is returned.
C22_NoCatchAll ==
    \A i \in Slots :
        (Done(i) /\ RaisedInTry(i) # None) =>
            LET exc == RaisedInTry(i)
            IN  IF exc.type \in {"ValueError", "JSONDecodeError", "DatadogClientError"}
                THEN result[i] = Return(FailureEnvelope(exc.message))
                ELSE /\ result[i].kind = "raise"
                     /\ result[i].type = exc.type
                     /\ ~IsFailure(result[i]) /\ ~IsSuccess(result[i])

\* C22 witness: the TypeError raised while query_metrics iterated a null
\* series left the handler.
C22_Witness ==
    \E i \in Slots :
        /\ Done(i)
        /\ op[i] = "query_metrics"
        /\ received[i] # None
        /\ received[i].kind = "return"
        /\ result[i].kind = "raise"
        /\ result[i].type = "TypeError"

\* The application key that the token response of the context of slot i
\* carries: its non-empty dd_application_key, else its application_key.
OwnApplicationKey(i) ==
    LET raw == RawOf(i)
    IN  IF NonEmptyEntry(raw, "dd_application_key") THEN raw["dd_application_key"]
        ELSE raw["application_key"]

\* C23: credentials do not pass from one invocation to another: the
\* DD-API-KEY and DD-APPLICATION-KEY headers of every outbound request are
\* the access token and the application key of the token response of the
\* access context of the same invocation, also when invocations with
\* different contexts are interleaved, and an invocation holds credentials
\* only once it has started and only those of its own context.
C23_NoCredentialLeak ==
    \A i \in Slots :
        /\ \A n \in 1..Len(outbound[i]) :
               /\ TokenObtained(i)
               /\ outbound[i][n].headers.DD_API_KEY =
                      access_ctx[i].access.value.access_token
               /\ outbound[i][n].headers.DD_APPLICATION_KEY = OwnApplicationKey(i)
        /\ creds[i] # None =>
               /\ TokenObtained(i)
               /\ creds[i] = DatadogCredentials(access_ctx[i].access.value.access_token,
                                                OwnApplicationKey(i))

\* C23 witness: two invocations with different contexts were in flight
\* together, each request carrying the keys of its own context.
C23_Witness ==
    /\ pc[1] = "awaiting" /\ pc[2] = "awaiting"
    /\ access_ctx[1] # access_ctx[2]
    /\ outbound[1][1].headers.DD_API_KEY = Str("dd-api-key")
    /\ outbound[1][1].headers.DD_APPLICATION_KEY = Str("dd-app-key")
    /\ outbound[2][1].headers.DD_API_KEY = Str("")
    /\ outbound[2][1].headers.DD_APPLICATION_KEY = Str("app-key")

\* C24: for a status >= 400 request() raises DatadogClientError (no other
\* exception) with the message "Datadog API error (<status>): <detail>",
\* where <detail> is the errors entries joined with "; " if the body parses
\* to an object with a non-empty errors list of strings, and the raw
\* response text in every other case.
C24_ErrorMessageForm ==
    \A i \in Slots :
        (Done(i) /\ RemoteError(i)) =>
            LET r == response[i]
                detail == IF HasErrorsList(r) /\ Len(r.json.value.v["errors"].v) > 0
                          THEN JoinedErrors(r)
                          ELSE r.text
            IN  /\ received[i].kind = "raise"
                /\ received[i].type = "DatadogClientError"
                /\ received[i].status_code = r.status_code
                /\ received[i].message = ErrorPrefix(r) \o detail

\* The query string of a request has entry k with value v.
Sends(call, k, v) == k \in DOMAIN call.params.v /\ call.params.v[k] = v

\* The query string carries argument v under k when v is not null, and has
\* no entry k when it is.
SendsUnlessNull(call, k, v) ==
    IF v = None THEN k \notin DOMAIN call.params.v ELSE Sends(call, k, v)

\* "true" or "false" for a boolean argument.
LowerCase(flag) == IF flag.v THEN Str("true") ELSE Str("false")

\* C25: the null filter of request() removes the top-level entries whose
\* value is null and nothing else: entries with the values 0 or "" are sent
\* unchanged, so the defaulted page=0, start=0, offset=0 and page[offset]=0
\* are in the request, and a boolean flag that is set is sent as the string
\* "true" or "false".
C25_OnlyNullFiltered ==
    \A i \in Slots :
        Requested(i) =>
            LET call == outbound[i][1]
                a == args[i]
                o == op[i]
            IN  /\ call.params # None =>
                       \A k \in DOMAIN call.params.v : call.params.v[k] # None
                /\ o = "list_monitors" =>
                       /\ Sends(call, "page", Num(0))
                       /\ Sends(call, "page_size", a.page_size)
                       /\ SendsUnlessNull(call, "name", a.name)
                       /\ SendsUnlessNull(call, "tags", a.tags)
                /\ o = "list_hosts" =>
                       /\ Sends(call, "start", Num(0))
                       /\ Sends(call, "count", a.count)
                       /\ SendsUnlessNull(call, "filter", a.filter)
                       /\ Sends(call, "include_muted_hosts_data",
                                LowerCase(a.include_muted_hosts_data))
                /\ o = "list_dashboards" =>
                       /\ Sends(call, "start", Num(0))
                       /\ Sends(call, "count", a.count)
                       /\ SendsUnlessNull(call, "filter[shared]",
                              IF a.filter_shared = None THEN None
                              ELSE LowerCase(a.filter_shared))
                       /\ SendsUnlessNull(call, "filter[deleted]",
                              IF a.filter_deleted = None THEN None
                              ELSE LowerCase(a.filter_deleted))
                /\ o = "list_incidents" =>
                       /\ Sends(call, "page[offset]", Num(0))
                       /\ SendsUnlessNull(call, "include", a.include)
                /\ o = "list_slos" =>
                       /\ Sends(call, "offset", Num(0))
                       /\ Sends(call, "limit", a.limit)
                /\ o = "get_slo" =>
                       Sends(call, "with_configured_alert_ids",
                             LowerCase(a.with_configured_alert_ids))
                /\ o = "get_host_totals" =>
                       /\ SendsUnlessNull(call, "from", a.from_ts)
                       /\ a.from_ts = None => call.params = EmptyDict

\* C25 witness: list_monitors sent its page=0 and an empty name, and left
\* out the null monitor_tags.
C25_Witness ==
    \E i \in Slots :
        /\ Requested(i)
        /\ op[i] = "list_monitors"
        /\ args[i].name = Str("")
        /\ args[i].monitor_tags = None
        /\ outbound[i][1].params.v["page"] = Num(0)
        /\ outbound[i][1].params.v["name"] = Str("")
        /\ "monitor_tags" \notin DOMAIN outbound[i][1].params.v

====
